---- MODULE Spec2Model ----
(***************************************************************************)
(* Model of the dsps photometry kernels (photometry_kernels.py) and dust   *)
(* attenuation kernels (dust/attenuation_kernels.py).                      *)
(*                                                                         *)
(* The kernels are pure numeric functions.  A state of the model is one    *)
(* call of a kernel: `call` holds the function name and its arguments,     *)
(* `pc` tells whether the call is pending or has returned, `ret` is the    *)
(* value returned, and `prev` the preceding call and result once a kernel  *)
(* has been evaluated a second time (pc = "again").                        *)
(*                                                                         *)
(* Floating-point numbers are modelled as exact extended rationals         *)
(* [s, n, d]: sign s, numerator magnitude n, denominator magnitude d, the  *)
(* magnitudes being arbitrary-precision naturals (little-endian limbs).    *)
(* d = 0 encodes the IEEE special values: n = 0 is NaN, otherwise the      *)
(* value is s * infinity.  Signed zeros and rounding are not modelled.     *)
(* The transcendental results 10 ** y and log10(y) are kept as terms over  *)
(* their exact argument.                                                   *)
(***************************************************************************)
EXTENDS Integers, Sequences, FiniteSets, TLC

VARIABLES pc, call, ret, prev

vars == <<pc, call, ret, prev>>

(***************************************************************************)
(* Arbitrary-precision naturals: little-endian limbs, no high zero limb.   *)
(***************************************************************************)
Base == 100 * 100

RECURSIVE FromNat(_)
FromNat(k) == IF k = 0 THEN <<>> ELSE <<k % Base>> \o FromNat(k \div Base)

RECURSIVE NNorm(_)
NNorm(a) ==
  IF a = <<>> THEN <<>>
  ELSE IF a[Len(a)] = 0 THEN NNorm(SubSeq(a, 1, Len(a) - 1)) ELSE a

Hd(a) == IF a = <<>> THEN 0 ELSE a[1]
Tl(a) == IF a = <<>> THEN <<>> ELSE Tail(a)

\* a + b + c, t the sum of the lowest limbs and the carry
RECURSIVE NAddC(_, _, _), NAddT(_, _, _)
NAddT(a, b, t) == <<t % Base>> \o NAddC(Tl(a), Tl(b), t \div Base)
NAddC(a, b, c) ==
  IF a = <<>> /\ b = <<>> THEN (IF c = 0 THEN <<>> ELSE <<c>>)
  ELSE NAddT(a, b, Hd(a) + Hd(b) + c)

NAdd(a, b) == NAddC(a, b, 0)

\* a - b - c for a >= b + c, t the difference of the lowest limbs and the borrow
RECURSIVE NSubB(_, _, _), NSubT(_, _, _)
NSubT(a, b, t) ==
  <<IF t < 0 THEN t + Base ELSE t>> \o NSubB(Tail(a), Tl(b), IF t < 0 THEN 1 ELSE 0)
NSubB(a, b, c) == IF a = <<>> THEN <<>> ELSE NSubT(a, b, a[1] - Hd(b) - c)

NSub(a, b) == NNorm(NSubB(a, b, 0))

RECURSIVE NCmpAt(_, _, _)
NCmpAt(a, b, i) ==
  IF i = 0 THEN 0
  ELSE IF a[i] < b[i] THEN -1
  ELSE IF a[i] > b[i] THEN 1
  ELSE NCmpAt(a, b, i - 1)

\* -1, 0, 1 as a < b, a = b, a > b
NCmp(a, b) ==
  IF Len(a) < Len(b) THEN -1
  ELSE IF Len(a) > Len(b) THEN 1
  ELSE NCmpAt(a, b, Len(a))

\* a * d + c for a limb d, t the product of the lowest limb and the carry
RECURSIVE NMul1(_, _, _), NMulT(_, _, _)
NMulT(a, d, t) == <<t % Base>> \o NMul1(Tail(a), d, t \div Base)
NMul1(a, d, c) ==
  IF a = <<>> THEN (IF c = 0 THEN <<>> ELSE <<c>>) ELSE NMulT(a, d, a[1] * d + c)

RECURSIVE NMul(_, _)
NMul(a, b) ==
  IF a = <<>> \/ b = <<>> THEN <<>>
  ELSE IF a = <<1>> THEN b
  ELSE IF b = <<1>> THEN a
  ELSE NAdd(NMul1(a, b[1], 0),
            IF Tail(b) = <<>> THEN <<>> ELSE <<0>> \o NMul(a, Tail(b)))

(***************************************************************************)
(* Extended rationals: the model of a float.                               *)
(***************************************************************************)
NaN == [s |-> 0, n |-> <<>>, d |-> <<>>]
Zero == [s |-> 0, n |-> <<>>, d |-> <<1>>]
One == [s |-> 1, n |-> <<1>>, d |-> <<1>>]
Inf(sgn) == [s |-> sgn, n |-> <<1>>, d |-> <<>>]

\* common factors of Base are cancelled; this keeps the limbs short
RECURSIVE Strip(_, _, _)
Strip(sgn, n, d) ==
  IF n[1] = 0 /\ d[1] = 0 THEN Strip(sgn, Tail(n), Tail(d))
  ELSE [s |-> sgn, n |-> n, d |-> d]

RNorm(sgn, n, d) ==
  IF d = <<>> THEN (IF sgn = 0 \/ n = <<>> THEN NaN ELSE Inf(sgn))
  ELSE IF sgn = 0 \/ n = <<>> THEN Zero
  ELSE Strip(sgn, n, d)

\* the float written p/q in the source (q > 0), e.g. 4.05 is Rat(405, 100)
Rat(p, q) ==
  RNorm(IF p < 0 THEN -1 ELSE IF p = 0 THEN 0 ELSE 1,
        FromNat(IF p < 0 THEN -p ELSE p), FromNat(q))

IsNaN(a) == a.d = <<>> /\ a.s = 0
IsInf(a) == a.d = <<>> /\ a.s # 0
IsFinite(a) == a.d # <<>>
IsZero(a) == a.d # <<>> /\ a.s = 0

RNeg(a) == [a EXCEPT !.s = -a.s]

\* a + b for finite nonzero a = +-p/d, b = +-q/d, c comparing p with q
RAddC(a, b, p, q, d, c) ==
  IF c = 0 THEN Zero
  ELSE IF c > 0 THEN RNorm(a.s, NSub(p, q), d)
  ELSE RNorm(b.s, NSub(q, p), d)

RAddQ(a, b, p, q, d) ==
  IF a.s = b.s THEN RNorm(a.s, NAdd(p, q), d) ELSE RAddC(a, b, p, q, d, NCmp(p, q))

RAdd(a, b) ==
  IF IsNaN(a) \/ IsNaN(b) THEN NaN
  ELSE IF IsInf(a) /\ IsInf(b) THEN (IF a.s = b.s THEN a ELSE NaN)
  ELSE IF IsInf(a) THEN a
  ELSE IF IsInf(b) THEN b
  ELSE IF a.s = 0 THEN b
  ELSE IF b.s = 0 THEN a
  ELSE IF a.d = b.d THEN RAddQ(a, b, a.n, b.n, a.d)
  ELSE RAddQ(a, b, NMul(a.n, b.d), NMul(b.n, a.d), NMul(a.d, b.d))

RSub(a, b) == RAdd(a, RNeg(b))

RMul(a, b) == RNorm(a.s * b.s, NMul(a.n, b.n), NMul(a.d, b.d))

\* 1 / b: 1/0 is +infinity, 1/infinity is 0
Recip(b) ==
  IF IsNaN(b) THEN NaN
  ELSE IF IsInf(b) THEN Zero
  ELSE IF b.s = 0 THEN Inf(1)
  ELSE [s |-> b.s, n |-> b.d, d |-> b.n]

RDiv(a, b) == RMul(a, Recip(b))

\* a ** k for an integer k
RECURSIVE RPow(_, _)
RPow(a, k) ==
  IF k = 0 THEN One
  ELSE IF k < 0 THEN Recip(RPow(a, -k))
  ELSE RMul(a, RPow(a, k - 1))

\* IEEE comparisons: every comparison with a NaN is false
RLt(a, b) == ~IsNaN(a) /\ ~IsNaN(b) /\ RSub(a, b).s = -1
REq(a, b) == ~IsNaN(a) /\ ~IsNaN(b) /\ (a = b \/ IsZero(RSub(a, b)))
RLe(a, b) == RLt(a, b) \/ REq(a, b)

\* the same float: equal, or both NaN
Same(a, b) == (IsNaN(a) /\ IsNaN(b)) \/ REq(a, b)

RAbs(a) == [a EXCEPT !.s = IF a.s = 0 THEN 0 ELSE 1]

\* jnp.where(cond, x, y) on scalars
where(cond, x, y) == IF cond THEN x ELSE y

(***************************************************************************)
(* dust/attenuation_kernels.py                                             *)
(***************************************************************************)
RV_C00 == Rat(405, 100)
UV_BUMP_W0 == 2175
UV_BUMP_DW == 350

\* the value c + m * 10 ** e, the exponent kept exact
TenPow(c, m, e) == [c |-> c, m |-> m, e |-> e]

\* jnp.where(v < 0, 0, v)
clip_at_zero(v) == where(RLt(v, Zero), Zero, v)

\* slip: the magnitude is taken instead of clipping at zero
_attenuation_curve_abs(axEbv, rv, av) == RAbs(RDiv(RMul(av, axEbv), rv))

_attenuation_curve(axEbv, rv, av) == clip_at_zero(RDiv(RMul(av, axEbv), rv))

\* slip: the arguments of _attenuation_curve in the wrong order
_flux_ratio_argorder(axEbv, rv, av, frac_unobscured) ==
  LET frac_att_obs_exp == RMul(Rat(-4, 10), _attenuation_curve(rv, axEbv, av))
  IN  TenPow(frac_unobscured, RSub(One, frac_unobscured), frac_att_obs_exp)

_flux_ratio(axEbv, rv, av, frac_unobscured) ==
  LET frac_att_obs_exp == RMul(Rat(-4, 10), _attenuation_curve(axEbv, rv, av))
  IN  TenPow(frac_unobscured, RSub(One, frac_unobscured), frac_att_obs_exp)

\* the branch of calzetti00_k_lambda below 0.63 microns
calzetti00_axEbv1(x, rv) ==
  RAdd(RMul(Rat(2659, 1000),
            RAdd(RSub(RAdd(Rat(-2156, 1000),
                           RDiv(RMul(Rat(1509, 1000), One), x)),
                      RDiv(RMul(Rat(198, 1000), One), RPow(x, 2))),
                 RDiv(RMul(Rat(11, 1000), One), RPow(x, 3)))),
       rv)

\* slip: -1.587 for -1.857
calzetti00_axEbv2_typo(x, rv) ==
  RAdd(RMul(Rat(2659, 1000),
            RAdd(Rat(-1587, 1000), RDiv(RMul(Rat(1040, 1000), One), x))),
       rv)

\* the branch of calzetti00_k_lambda from 0.63 microns on
calzetti00_axEbv2(x, rv) ==
  RAdd(RMul(Rat(2659, 1000),
            RAdd(Rat(-1857, 1000), RDiv(RMul(Rat(1040, 1000), One), x))),
       rv)

calzetti00_k_lambda(x, rv) ==
  where(RLt(x, Rat(63, 100)), calzetti00_axEbv1(x, rv), calzetti00_axEbv2(x, rv))

\* slip: 0.617 for 0.671
leitherer02_k_lambda_typo(x, rv) ==
  RAdd(Rat(5472, 1000),
       RAdd(RSub(RDiv(RMul(Rat(617, 1000), One), x),
                 RDiv(RMul(Rat(9218, 1000), Rat(1, 1000)), RPow(x, 2))),
            RDiv(RMul(Rat(2620, 1000), Rat(1, 1000)), RPow(x, 3))))

leitherer02_k_lambda(x, rv) ==
  RAdd(Rat(5472, 1000),
       RAdd(RSub(RDiv(RMul(Rat(671, 1000), One), x),
                 RDiv(RMul(Rat(9218, 1000), Rat(1, 1000)), RPow(x, 2))),
            RDiv(RMul(Rat(2620, 1000), Rat(1, 1000)), RPow(x, 3))))

\* x2g2 / (d2 + x2g2) for x2g2 = x**2 * gamma**2, d2 = (x**2 - x0**2) ** 2
drude_profile(x2g2, d2) == RDiv(x2g2, RAdd(d2, x2g2))

drude_bump(x, x0, gamma, ampl) ==
  RMul(ampl, drude_profile(RMul(RPow(x, 2), RPow(gamma, 2)),
                           RPow(RSub(RPow(x, 2), RPow(x0, 2)), 2)))

\* slip: * for **
power_law_vband_norm_times(x, slope) ==
  RMul(RDiv(x, Rat(55, 100)), Rat(slope, 1))

\* slope is an integer-valued float
power_law_vband_norm(x, slope) == RPow(RDiv(x, Rat(55, 100)), slope)

\* slip: x >= xc for x > xc
_l02_below_c00_above_ge(x, xc) ==
  LET axEbv_c00 == calzetti00_k_lambda(x, RV_C00)
      axEbv_l02 == leitherer02_k_lambda(x, RV_C00)
  IN  where(RLe(xc, x), axEbv_c00, axEbv_l02)

_l02_below_c00_above(x, xc) ==
  LET axEbv_c00 == calzetti00_k_lambda(x, RV_C00)
      axEbv_l02 == leitherer02_k_lambda(x, RV_C00)
  IN  where(RLt(xc, x), axEbv_c00, axEbv_l02)

\* the blend, plus the UV bump, times the power law, clipped at zero
noll09_k_lambda(x, x0, gamma, ampl, slope) ==
  clip_at_zero(RMul(RAdd(_l02_below_c00_above(x, Rat(15, 100)),
                         drude_bump(x, x0, gamma, ampl)),
                    power_law_vband_norm(x, slope)))

\* the blend, times the power law, plus the UV bump, clipped at zero
sbl18_k_lambda(x, x0, gamma, ampl, slope) ==
  clip_at_zero(RAdd(RMul(_l02_below_c00_above(x, Rat(15, 100)),
                         power_law_vband_norm(x, slope)),
                    drude_bump(x, x0, gamma, ampl)))

(***************************************************************************)
(* Arrays are sequences; jnp.interp and jnp.trapz as jax.numpy defines     *)
(* them.                                                                   *)
(***************************************************************************)
RECURSIVE RSum(_)
RSum(a) == IF a = <<>> THEN Zero ELSE RAdd(a[1], RSum(Tail(a)))

\* jnp.searchsorted(xp, x, side='right'): the number of xp[k] <= x
searchsorted_right(xp, x) == Cardinality({k \in 1..Len(xp) : RLe(xp[k], x)})

clip(i, lo, hi) == IF i < lo THEN lo ELSE IF i > hi THEN hi ELSE i

\* jnp.interp at one point x between xp[i] and xp[i + 1]
interp_at(x, xp, fp, i, dx) ==
  where(IsZero(dx), fp[i],
        RAdd(fp[i], RMul(RDiv(RSub(x, xp[i]), dx), RSub(fp[i + 1], fp[i]))))

interp_in(x, xp, fp, i) == interp_at(x, xp, fp, i, RSub(xp[i + 1], xp[i]))

interp1(x, xp, fp, left, right) ==
  where(RLt(xp[Len(xp)], x), right,
        where(RLt(x, xp[1]), left,
              interp_in(x, xp, fp, clip(searchsorted_right(xp, x), 1, Len(xp) - 1))))

interp(x, xp, fp, left, right) ==
  [k \in 1..Len(x) |-> interp1(x[k], xp, fp, left, right)]

\* jnp.trapz(y, x=x)
trapz(y, x) ==
  RMul(Rat(1, 2),
       RSum([k \in 1..(Len(x) - 1) |->
               RMul(RSub(x[k + 1], x[k]), RAdd(y[k + 1], y[k]))]))

(***************************************************************************)
(* photometry_kernels.py                                                   *)
(***************************************************************************)
\* 1.13492e-13
AB0 == [s |-> 1, n |-> FromNat(113492), d |-> <<0, 0, 0, 0, 100>>]

\* the value k * log10(arg), the argument kept exact
LogTerm(k, arg) == [k |-> k, log10 |-> arg]

\* flat_wcdm._distance_modulus_to_z: the cosmology collaborator, uninterpreted
_distance_modulus_to_z(z, Om0, Ode0, w0, wa, h) ==
  [fn |-> "_distance_modulus_to_z", args |-> <<z, Om0, Ode0, w0, wa, h>>]

\* slip: left=0, right=0 left out of jnp.interp, which then holds the edge values
_obs_flux_ssp_edges(wave_spec_rest, lum_spec, wave_filter, trans_filter, z) ==
  LET wave_obs == [k \in 1..Len(wave_spec_rest) |->
                     RMul(wave_spec_rest[k], RAdd(One, z))]
      lum_zshift_phot == interp(wave_filter, wave_obs, lum_spec, lum_spec[1],
                                lum_spec[Len(lum_spec)])
      integrand == [k \in 1..Len(wave_filter) |->
                      RDiv(RMul(trans_filter[k], lum_zshift_phot[k]), wave_filter[k])]
  IN  trapz(integrand, wave_filter)

_obs_flux_ssp(wave_spec_rest, lum_spec, wave_filter, trans_filter, z) ==
  LET wave_obs == [k \in 1..Len(wave_spec_rest) |->
                     RMul(wave_spec_rest[k], RAdd(One, z))]
      lum_zshift_phot == interp(wave_filter, wave_obs, lum_spec, Zero, Zero)
      integrand == [k \in 1..Len(wave_filter) |->
                      RDiv(RMul(trans_filter[k], lum_zshift_phot[k]), wave_filter[k])]
  IN  trapz(integrand, wave_filter)

_rest_flux_ssp(wave_spec_rest, lum_spec, wave_filter, trans_filter) ==
  LET lum_phot == interp(wave_filter, wave_spec_rest, lum_spec, Zero, Zero)
      integrand == [k \in 1..Len(wave_filter) |->
                      RDiv(RMul(trans_filter[k], lum_phot[k]), wave_filter[k])]
  IN  trapz(integrand, wave_filter)

\* slip: the arguments of jnp.trapz in the wrong order
_flux_ab0_at_10pc_swapped(wave_filter, trans_filter) ==
  LET integrand == [k \in 1..Len(wave_filter) |->
                      RDiv(RMul(trans_filter[k], AB0), wave_filter[k])]
  IN  trapz(wave_filter, integrand)

_flux_ab0_at_10pc(wave_filter, trans_filter) ==
  LET integrand == [k \in 1..Len(wave_filter) |->
                      RDiv(RMul(trans_filter[k], AB0), wave_filter[k])]
  IN  trapz(integrand, wave_filter)

_cosmological_dimming(z, Om0, Ode0, w0, wa, h) ==
  LET dmod == _distance_modulus_to_z(z, Om0, Ode0, w0, wa, h)
  IN  [dmod |-> dmod, plus |-> LogTerm(Rat(-25, 10), RAdd(One, z))]

_calc_obs_mag_no_dimming(wave_spec_rest, lum_spec, wave_filter, trans_filter, z) ==
  LET flux_source == _obs_flux_ssp(wave_spec_rest, lum_spec, wave_filter, trans_filter, z)
      flux_ab0 == _flux_ab0_at_10pc(wave_filter, trans_filter)
  IN  LogTerm(Rat(-25, 10), RDiv(flux_source, flux_ab0))

_calc_rest_mag(wave_spec_rest, lum_spec, wave_filter, trans_filter) ==
  LET flux_source == _rest_flux_ssp(wave_spec_rest, lum_spec, wave_filter, trans_filter)
      flux_ab0 == _flux_ab0_at_10pc(wave_filter, trans_filter)
  IN  LogTerm(Rat(-25, 10), RDiv(flux_source, flux_ab0))

_calc_obs_mag(wave_spec_rest, lum_spec, wave_filter, trans_filter, z, Om0, Ode0, w0, wa, h) ==
  LET flux_source == _obs_flux_ssp(wave_spec_rest, lum_spec, wave_filter, trans_filter, z)
      flux_ab0 == _flux_ab0_at_10pc(wave_filter, trans_filter)
      mag_no_dimming == LogTerm(Rat(-25, 10), RDiv(flux_source, flux_ab0))
      dimming == _cosmological_dimming(z, Om0, Ode0, w0, wa, h)
  IN  [mag_no_dimming |-> mag_no_dimming, dimming |-> dimming]

(***************************************************************************)
(* dust/attenuation_kernels.py: the attenuation of a filter                *)
(***************************************************************************)
_get_filter_effective_wavelength(filter_wave, filter_trans, redshift) ==
  LET norm == trapz(filter_trans, filter_wave)
      lambda_eff_rest ==
        RDiv(trapz([k \in 1..Len(filter_wave) |->
                      RMul(filter_trans[k], filter_wave[k])], filter_wave), norm)
  IN  RDiv(lambda_eff_rest, RAdd(One, redshift))

\* dust_params is (dust_Eb, dust_delta, dust_Av), dust_delta an integer
_get_effective_attenuation(filter_wave, filter_trans, redshift, dust_params) ==
  LET lambda_eff == _get_filter_effective_wavelength(filter_wave, filter_trans, redshift)
      lambda_eff_micron == RDiv(lambda_eff, Rat(10000, 1))
      dust_x0_microns == Rat(UV_BUMP_W0, 10000)
      bump_width_microns == Rat(UV_BUMP_DW, 10000)
      axEbv == sbl18_k_lambda(lambda_eff_micron, dust_x0_microns, bump_width_microns,
                              dust_params[1], dust_params[2])
  IN  _flux_ratio(axEbv, RV_C00, dust_params[3], Zero)

(***************************************************************************)
(* jax.vmap.  A call either returns a value or raises: Return / Raise.     *)
(* in_axes is one entry per positional argument, None or axis "0".         *)
(***************************************************************************)
None == "None"
Return(v) == [err |-> FALSE, val |-> v]
Raise(e) == [err |-> TRUE, val |-> e]

\* the stacked results, unless a call of the mapped function raised
stack(outs) ==
  IF \E i \in DOMAIN outs : outs[i].err
  THEN Raise("ValueError")
  ELSE Return([i \in DOMAIN outs |-> outs[i].val])

\* argument k of the i-th mapped call
axis_slice(in_axes, args, i) ==
  [k \in 1..Len(args) |-> IF in_axes[k] # None THEN args[k][i] ELSE args[k]]

\* the sizes of the mapped axes of the arguments
vmap_axis_sizes(in_axes, args) ==
  {Len(args[k]) : k \in {j \in 1..Len(args) : in_axes[j] # None}}

\* jax.vmap raises ValueError when in_axes has not one entry per argument, or
\* when the mapped axes differ in size (or no argument is mapped)
vmap_raises(in_axes, args) ==
  \/ Len(in_axes) # Len(args)
  \/ Cardinality(vmap_axis_sizes(in_axes, args)) # 1

vmap_axis_size(in_axes, args) == CHOOSE m \in vmap_axis_sizes(in_axes, args) : TRUE

\* the kernels called positionally
apply_obs_flux_ssp(a) == Return(_obs_flux_ssp(a[1], a[2], a[3], a[4], a[5]))
apply_calc_obs_mag_no_dimming(a) ==
  Return(_calc_obs_mag_no_dimming(a[1], a[2], a[3], a[4], a[5]))
apply_calc_obs_mag(a) ==
  Return(_calc_obs_mag(a[1], a[2], a[3], a[4], a[5], a[6], a[7], a[8], a[9], a[10]))

_a == <<None, "0", None, None, None>>
_b == <<None, None, None, None, "0">>

\* slip: the redshift axis mapped outermost
_obs_flux_ssp_vmap_transposed_a(args) ==
  IF vmap_raises(_a, args) THEN Raise("ValueError")
  ELSE stack([i \in 1..vmap_axis_size(_a, args) |->
                apply_obs_flux_ssp(axis_slice(_a, args, i))])
_obs_flux_ssp_vmap_transposed_aa(args) ==
  IF vmap_raises(_a, args) THEN Raise("ValueError")
  ELSE stack([i \in 1..vmap_axis_size(_a, args) |->
                _obs_flux_ssp_vmap_transposed_a(axis_slice(_a, args, i))])
_obs_flux_ssp_vmap_transposed(args) ==
  IF vmap_raises(_b, args) THEN Raise("ValueError")
  ELSE stack([i \in 1..vmap_axis_size(_b, args) |->
                _obs_flux_ssp_vmap_transposed_aa(axis_slice(_b, args, i))])

\* jvmap(_obs_flux_ssp, in_axes=_b)
_obs_flux_ssp_vmap_b(args) ==
  IF vmap_raises(_b, args) THEN Raise("ValueError")
  ELSE stack([i \in 1..vmap_axis_size(_b, args) |->
                apply_obs_flux_ssp(axis_slice(_b, args, i))])

\* jvmap(jvmap(_obs_flux_ssp, in_axes=_b), in_axes=_a)
_obs_flux_ssp_vmap_ba(args) ==
  IF vmap_raises(_a, args) THEN Raise("ValueError")
  ELSE stack([i \in 1..vmap_axis_size(_a, args) |->
                _obs_flux_ssp_vmap_b(axis_slice(_a, args, i))])

_obs_flux_ssp_vmap(args) ==
  IF vmap_raises(_a, args) THEN Raise("ValueError")
  ELSE stack([i \in 1..vmap_axis_size(_a, args) |->
                _obs_flux_ssp_vmap_ba(axis_slice(_a, args, i))])

\* jvmap(_calc_obs_mag_no_dimming, in_axes=_b)
_calc_obs_mag_no_dimming_vmap_b(args) ==
  IF vmap_raises(_b, args) THEN Raise("ValueError")
  ELSE stack([i \in 1..vmap_axis_size(_b, args) |->
                apply_calc_obs_mag_no_dimming(axis_slice(_b, args, i))])

\* jvmap(jvmap(_calc_obs_mag_no_dimming, in_axes=_b), in_axes=_a)
_calc_obs_mag_no_dimming_vmap_ba(args) ==
  IF vmap_raises(_a, args) THEN Raise("ValueError")
  ELSE stack([i \in 1..vmap_axis_size(_a, args) |->
                _calc_obs_mag_no_dimming_vmap_b(axis_slice(_a, args, i))])

_calc_obs_mag_no_dimming_vmap(args) ==
  IF vmap_raises(_a, args) THEN Raise("ValueError")
  ELSE stack([i \in 1..vmap_axis_size(_a, args) |->
                _calc_obs_mag_no_dimming_vmap_ba(axis_slice(_a, args, i))])

_calc_obs_mag_no_dimming_vmap_singlemet(args) ==
  IF vmap_raises(_a, args) THEN Raise("ValueError")
  ELSE stack([i \in 1..vmap_axis_size(_a, args) |->
                _calc_obs_mag_no_dimming_vmap_b(axis_slice(_a, args, i))])

_c == <<None, "0", None, None, None, None, None>>
_d == <<None, None, None, None, "0", None, None>>
_e == <<None, None, "0", "0", None, None, None>>

\* jvmap(_calc_obs_mag, in_axes=_d)
_calc_obs_mag_vmap_d(args) ==
  IF vmap_raises(_d, args) THEN Raise("ValueError")
  ELSE stack([i \in 1..vmap_axis_size(_d, args) |->
                apply_calc_obs_mag(axis_slice(_d, args, i))])

\* jvmap(jvmap(_calc_obs_mag, in_axes=_d), in_axes=_c)
_calc_obs_mag_vmap_dc(args) ==
  IF vmap_raises(_c, args) THEN Raise("ValueError")
  ELSE stack([i \in 1..vmap_axis_size(_c, args) |->
                _calc_obs_mag_vmap_d(axis_slice(_c, args, i))])

_calc_obs_mag_vmap(args) ==
  IF vmap_raises(_c, args) THEN Raise("ValueError")
  ELSE stack([i \in 1..vmap_axis_size(_c, args) |->
                _calc_obs_mag_vmap_dc(axis_slice(_c, args, i))])

(***************************************************************************)
(* The inputs of the calls.                                                *)
(***************************************************************************)
MaxX20 == 14
MaxSlope == 1
MaxAv2 == 2
MaxLum == 1
MaxFilterLen == 3
NMet == 3
NAge == 4
NGal == 5

IntArr(a) == [k \in 1..Len(a) |-> Rat(a[k], 1)]

\* wavelengths in microns: 0, 0.05, ..., and the neighbours of 0.15 and 0.63
XGrid == {Rat(k, 20) : k \in 0..MaxX20} \cup {Rat(k, 100) : k \in {14, 16, 62, 63, 64}}
XcGrid == {Rat(15, 100), Rat(20, 100)}
RvGrid == {RV_C00, Rat(31, 10), Zero, Rat(-1, 1)}
X0Grid == {Rat(UV_BUMP_W0, 10000), Rat(15, 100)}
GammaGrid == {Rat(UV_BUMP_DW, 10000), Zero}
AmplGrid == {Rat(-20, 1), Zero, Rat(3, 1)}
SlopeGrid == (-MaxSlope)..MaxSlope
AxGrid == {Rat(-1, 1), Zero, Rat(1, 2), Rat(2, 1)}
AvGrid == {Rat(k, 2) : k \in (-MaxAv2)..MaxAv2}
FracGrid == {Zero, Rat(1, 2)}
ZGrid == {Zero, Rat(1, 2), One}

SpecWaves == {IntArr(<<3000, 6000>>), IntArr(<<4200, 4800>>),
              IntArr(<<3000, 4500, 6000>>)}
Spectra ==
  UNION {{[wave |-> w, lum |-> l] :
            l \in [1..Len(w) -> {Rat(v, 1) : v \in 0..MaxLum}]} : w \in SpecWaves}

\* filter wavelengths 4000, 4500, 5000, ... Angstrom
FilterWave(n) == [k \in 1..n |-> Rat(3500 + 500 * k, 1)]
Filters ==
  UNION {{[wave |-> FilterWave(n), trans |-> t] :
            t \in [1..n -> {Zero, Rat(1, 2), One}]} : n \in 2..MaxFilterLen}
PhotFilters == {f \in Filters : \A k \in 1..Len(f.trans) : f.trans[k] # Rat(1, 2)}

Cosmology == [Om0 |-> Rat(3, 10), Ode0 |-> Rat(7, 10), w0 |-> Rat(-1, 1),
              wa |-> Zero, h |-> Rat(7, 10)]

\* batched inputs: lum_spec of shape (n_met, n_age, 3), z of shape (n_gal,)
LumCube(n_met, n_age) ==
  [m \in 1..n_met |-> [a \in 1..n_age |-> IntArr(<<m, a + 1, m + 2 * a>>)]]
ZVec(n_gal) == [g \in 1..n_gal |-> Rat(g - 1, 10)]
BatchWave == IntArr(<<3000, 4500, 6000>>)
BatchFilter == [wave |-> FilterWave(3), trans |-> IntArr(<<1, 1, 1>>)]

CurveCalls ==
  [fn : {"calzetti00_k_lambda", "leitherer02_k_lambda"}, x : XGrid, rv : RvGrid]
BlendCalls == [fn : {"_l02_below_c00_above"}, x : XGrid, xc : XcGrid]
ModelCalls ==
  [fn : {"noll09_k_lambda", "sbl18_k_lambda"}, x : XGrid, x0 : X0Grid,
   gamma : GammaGrid, ampl : AmplGrid, slope : SlopeGrid]
AttenuationCalls ==
  [fn : {"_attenuation_curve"}, axEbv : AxGrid, rv : RvGrid, av : AvGrid]
FluxRatioCalls ==
  [fn : {"_flux_ratio"}, axEbv : AxGrid, rv : RvGrid, av : AvGrid,
   frac_unobscured : FracGrid]
Ab0Calls == [fn : {"_flux_ab0_at_10pc"}, filter : Filters]
RestCalls ==
  [fn : {"_rest_flux_ssp", "_calc_rest_mag"}, spec : Spectra, filter : PhotFilters]
ObsCalls ==
  [fn : {"_obs_flux_ssp", "_calc_obs_mag_no_dimming", "_calc_obs_mag"},
   spec : Spectra, filter : PhotFilters, z : ZGrid]
EffCalls ==
  [fn : {"_get_filter_effective_wavelength", "_get_effective_attenuation"},
   filter : PhotFilters, z : ZGrid,
   dust_params : {<<Rat(3, 1), 0, Rat(1, 2)>>, <<Zero, -1, One>>}]
VmapCalls ==
  [fn : {"_obs_flux_ssp_vmap", "_calc_obs_mag_no_dimming_vmap",
         "_calc_obs_mag_no_dimming_vmap_singlemet", "_calc_obs_mag_vmap"},
   n_met : 1..NMet, n_age : 1..NAge, n_gal : 1..NGal]

\* the positional arguments of a batched call
VmapArgs(c) ==
  LET five == <<BatchWave, LumCube(c.n_met, c.n_age), BatchFilter.wave,
                BatchFilter.trans, ZVec(c.n_gal)>>
  IN  IF c.fn = "_calc_obs_mag_vmap"
      THEN five \o <<Cosmology.Om0, Cosmology.Ode0, Cosmology.w0, Cosmology.wa,
                     Cosmology.h>>
      ELSE IF c.fn = "_calc_obs_mag_no_dimming_vmap_singlemet"
      THEN [five EXCEPT ![2] = LumCube(c.n_met, c.n_age)[c.n_met]]
      ELSE five

Init ==
  /\ pc = "pending"
  /\ \/ call \in CurveCalls
     \/ call \in BlendCalls
     \/ call \in ModelCalls
     \/ call \in AttenuationCalls
     \/ call \in FluxRatioCalls
     \/ call \in Ab0Calls
     \/ call \in RestCalls
     \/ call \in ObsCalls
     \/ call \in EffCalls
     \/ call \in VmapCalls
  /\ ret = None
  /\ prev = None

Call_calzetti00_k_lambda ==
  /\ pc = "pending"
  /\ call.fn = "calzetti00_k_lambda"
  /\ ret' =
       calzetti00_k_lambda(call.x, call.rv)
  /\ pc' = "returned"
  /\ UNCHANGED <<call, prev>>

Call_leitherer02_k_lambda ==
  /\ pc = "pending"
  /\ call.fn = "leitherer02_k_lambda"
  /\ ret' =
       leitherer02_k_lambda(call.x, call.rv)
  /\ pc' = "returned"
  /\ UNCHANGED <<call, prev>>

Call_l02_below_c00_above ==
  /\ pc = "pending"
  /\ call.fn = "_l02_below_c00_above"
  /\ ret' =
       _l02_below_c00_above(call.x, call.xc)
  /\ pc' = "returned"
  /\ UNCHANGED <<call, prev>>

Call_noll09_k_lambda ==
  /\ pc = "pending"
  /\ call.fn = "noll09_k_lambda"
  /\ ret' =
       noll09_k_lambda(call.x, call.x0, call.gamma, call.ampl, call.slope)
  /\ pc' = "returned"
  /\ UNCHANGED <<call, prev>>

Call_sbl18_k_lambda ==
  /\ pc = "pending"
  /\ call.fn = "sbl18_k_lambda"
  /\ ret' =
       sbl18_k_lambda(call.x, call.x0, call.gamma, call.ampl, call.slope)
  /\ pc' = "returned"
  /\ UNCHANGED <<call, prev>>

Call_attenuation_curve ==
  /\ pc = "pending"
  /\ call.fn = "_attenuation_curve"
  /\ ret' =
       _attenuation_curve(call.axEbv, call.rv, call.av)
  /\ pc' = "returned"
  /\ UNCHANGED <<call, prev>>

Call_flux_ratio ==
  /\ pc = "pending"
  /\ call.fn = "_flux_ratio"
  /\ ret' =
       _flux_ratio(call.axEbv, call.rv, call.av, call.frac_unobscured)
  /\ pc' = "returned"
  /\ UNCHANGED <<call, prev>>

\* _flux_ratio evaluated again with another av, everything else fixed
Call_flux_ratio_again ==
  /\ pc = "returned"
  /\ call.fn = "_flux_ratio"
  /\ \E av2 \in AvGrid :
       /\ pc' = "again"
       /\ prev' = [call |-> call, ret |-> ret]
       /\ call' = [call EXCEPT !.av = av2]
       /\ ret' = _flux_ratio(call.axEbv, call.rv, av2, call.frac_unobscured)

Call_flux_ab0_at_10pc ==
  /\ pc = "pending"
  /\ call.fn = "_flux_ab0_at_10pc"
  /\ ret' =
       _flux_ab0_at_10pc(call.filter.wave, call.filter.trans)
  /\ pc' = "returned"
  /\ UNCHANGED <<call, prev>>

Call_rest_flux_ssp ==
  /\ pc = "pending"
  /\ call.fn = "_rest_flux_ssp"
  /\ ret' =
       _rest_flux_ssp(call.spec.wave, call.spec.lum, call.filter.wave,
                       call.filter.trans)
  /\ pc' = "returned"
  /\ UNCHANGED <<call, prev>>

Call_obs_flux_ssp ==
  /\ pc = "pending"
  /\ call.fn = "_obs_flux_ssp"
  /\ ret' =
       _obs_flux_ssp(call.spec.wave, call.spec.lum, call.filter.wave,
                      call.filter.trans, call.z)
  /\ pc' = "returned"
  /\ UNCHANGED <<call, prev>>

Call_calc_rest_mag ==
  /\ pc = "pending"
  /\ call.fn = "_calc_rest_mag"
  /\ ret' =
       _calc_rest_mag(call.spec.wave, call.spec.lum, call.filter.wave,
                       call.filter.trans)
  /\ pc' = "returned"
  /\ UNCHANGED <<call, prev>>

Call_calc_obs_mag_no_dimming ==
  /\ pc = "pending"
  /\ call.fn = "_calc_obs_mag_no_dimming"
  /\ ret' =
       _calc_obs_mag_no_dimming(call.spec.wave, call.spec.lum, call.filter.wave,
                                 call.filter.trans, call.z)
  /\ pc' = "returned"
  /\ UNCHANGED <<call, prev>>

Call_calc_obs_mag ==
  /\ pc = "pending"
  /\ call.fn = "_calc_obs_mag"
  /\ ret' =
       _calc_obs_mag(call.spec.wave, call.spec.lum, call.filter.wave,
                      call.filter.trans, call.z, Cosmology.Om0, Cosmology.Ode0,
                      Cosmology.w0, Cosmology.wa, Cosmology.h)
  /\ pc' = "returned"
  /\ UNCHANGED <<call, prev>>

Call_get_filter_effective_wavelength ==
  /\ pc = "pending"
  /\ call.fn = "_get_filter_effective_wavelength"
  /\ ret' =
       _get_filter_effective_wavelength(call.filter.wave, call.filter.trans, call.z)
  /\ pc' = "returned"
  /\ UNCHANGED <<call, prev>>

Call_get_effective_attenuation ==
  /\ pc = "pending"
  /\ call.fn = "_get_effective_attenuation"
  /\ ret' =
       _get_effective_attenuation(call.filter.wave, call.filter.trans, call.z,
                                  call.dust_params)
  /\ pc' = "returned"
  /\ UNCHANGED <<call, prev>>

Call_obs_flux_ssp_vmap ==
  /\ pc = "pending"
  /\ call.fn = "_obs_flux_ssp_vmap"
  /\ ret' =
       _obs_flux_ssp_vmap(VmapArgs(call))
  /\ pc' = "returned"
  /\ UNCHANGED <<call, prev>>

Call_calc_obs_mag_no_dimming_vmap ==
  /\ pc = "pending"
  /\ call.fn = "_calc_obs_mag_no_dimming_vmap"
  /\ ret' =
       _calc_obs_mag_no_dimming_vmap(VmapArgs(call))
  /\ pc' = "returned"
  /\ UNCHANGED <<call, prev>>

Call_calc_obs_mag_no_dimming_vmap_singlemet ==
  /\ pc = "pending"
  /\ call.fn = "_calc_obs_mag_no_dimming_vmap_singlemet"
  /\ ret' =
       _calc_obs_mag_no_dimming_vmap_singlemet(VmapArgs(call))
  /\ pc' = "returned"
  /\ UNCHANGED <<call, prev>>

Call_calc_obs_mag_vmap ==
  /\ pc = "pending"
  /\ call.fn = "_calc_obs_mag_vmap"
  /\ ret' =
       _calc_obs_mag_vmap(VmapArgs(call))
  /\ pc' = "returned"
  /\ UNCHANGED <<call, prev>>

Next ==
  \/ Call_calzetti00_k_lambda
  \/ Call_leitherer02_k_lambda
  \/ Call_l02_below_c00_above
  \/ Call_noll09_k_lambda
  \/ Call_sbl18_k_lambda
  \/ Call_attenuation_curve
  \/ Call_flux_ratio
  \/ Call_flux_ratio_again
  \/ Call_flux_ab0_at_10pc
  \/ Call_rest_flux_ssp
  \/ Call_obs_flux_ssp
  \/ Call_calc_rest_mag
  \/ Call_calc_obs_mag_no_dimming
  \/ Call_calc_obs_mag
  \/ Call_get_filter_effective_wavelength
  \/ Call_get_effective_attenuation
  \/ Call_obs_flux_ssp_vmap
  \/ Call_calc_obs_mag_no_dimming_vmap
  \/ Call_calc_obs_mag_no_dimming_vmap_singlemet
  \/ Call_calc_obs_mag_vmap

Spec == Init /\ [][Next]_vars

(***************************************************************************)
(* The claims.                                                             *)
(***************************************************************************)
\* the call of fn has returned: ret is its result
Returned(fn) == pc # "pending" /\ call.fn = fn

\* the tolerance within which two floats count as nearly equal
FloatTol == Rat(1, 1000)

\* 10 ** y terms: the value c + m * 10 ** e of a _flux_ratio result is 1
\* (c + m = 1 in every result, so the value is 1 exactly when m = 0 or e = 0)
TenPowIsOne(t) ==
  /\ IsFinite(t.e)
  /\ REq(RAdd(t.c, t.m), One)
  /\ (IsZero(t.m) \/ IsZero(t.e))

\* u >= v for two results with the same c and m: 10 ** e increases with e
TenPowGe(u, v) ==
  /\ Same(u.c, v.c) /\ Same(u.m, v.m)
  /\ ~IsNaN(u.e) /\ ~IsNaN(v.e)
  /\ \/ IsZero(u.m)
     \/ u.m.s = 1 /\ RLe(v.e, u.e)
     \/ u.m.s = -1 /\ RLe(u.e, v.e)

\* two magnitudes k * log10(arg) are the same float
SameMag(a, b) == Same(a.k, b.k) /\ Same(a.log10, b.log10)

\* C1 as stated: with xc = 0.15 the blend returns the Leitherer02 curve for
\* x < 0.15 and the Calzetti00 curve (rv = 4.05) for x >= 0.15, x = 0.15 included.
C1_BlendCalzettiFromXc ==
  (Returned("_l02_below_c00_above") /\ REq(call.xc, Rat(15, 100)))
    => IF RLt(call.x, Rat(15, 100))
       THEN Same(ret, leitherer02_k_lambda(call.x, RV_C00))
       ELSE Same(ret, calzetti00_k_lambda(call.x, RV_C00))

\* C1 amended: with xc = 0.15 the blend returns the Leitherer02 curve for
\* x <= 0.15 and the Calzetti00 curve (rv = 4.05) only for x > 0.15.
C1_BlendCalzettiAboveXc ==
  (Returned("_l02_below_c00_above") /\ REq(call.xc, Rat(15, 100)))
    => IF RLe(call.x, Rat(15, 100))
       THEN Same(ret, leitherer02_k_lambda(call.x, RV_C00))
       ELSE Same(ret, calzetti00_k_lambda(call.x, RV_C00))

C1_Witness ==
  /\ Returned("_l02_below_c00_above")
  /\ REq(call.xc, Rat(15, 100)) /\ REq(call.x, Rat(15, 100))
  /\ Same(ret, leitherer02_k_lambda(call.x, RV_C00))
  /\ ~Same(ret, calzetti00_k_lambda(call.x, RV_C00))

\* the scalar kernel of a batched call at index (m, a, g)
ScalarObsFlux(m, a, g) ==
  _obs_flux_ssp(BatchWave, LumCube(call.n_met, call.n_age)[m][a], BatchFilter.wave,
                BatchFilter.trans, ZVec(call.n_gal)[g])
ScalarObsMagNoDimming(m, a, g) ==
  _calc_obs_mag_no_dimming(BatchWave, LumCube(call.n_met, call.n_age)[m][a],
                           BatchFilter.wave, BatchFilter.trans, ZVec(call.n_gal)[g])

\* a returned array has shape (n_met, n_age, n_gal)
HasBatchShape(v) ==
  /\ Len(v) = call.n_met
  /\ \A m \in 1..call.n_met :
       /\ Len(v[m]) = call.n_age
       /\ \A a \in 1..call.n_age : Len(v[m][a]) = call.n_gal

\* C2: _obs_flux_ssp_vmap and _calc_obs_mag_no_dimming_vmap return an array of
\* shape (n_met, n_age, n_gal) whose element [m, a, g] is the scalar kernel at
\* (wave_spec_rest, lum_spec[m, a], wave_filter, trans_filter, z[g]).
C2_BatchedEqualsScalar ==
  /\ Returned("_obs_flux_ssp_vmap") =>
       /\ ~ret.err
       /\ HasBatchShape(ret.val)
       /\ \A m \in 1..call.n_met, a \in 1..call.n_age, g \in 1..call.n_gal :
            Same(ret.val[m][a][g], ScalarObsFlux(m, a, g))
  /\ Returned("_calc_obs_mag_no_dimming_vmap") =>
       /\ ~ret.err
       /\ HasBatchShape(ret.val)
       /\ \A m \in 1..call.n_met, a \in 1..call.n_age, g \in 1..call.n_gal :
            SameMag(ret.val[m][a][g], ScalarObsMagNoDimming(m, a, g))

\* a 3 x 4 x 5 batch whose transposed elements differ
C2_Witness ==
  /\ Returned("_obs_flux_ssp_vmap")
  /\ call.n_met = 3 /\ call.n_age = 4 /\ call.n_gal = 5
  /\ ~ret.err
  /\ ~Same(ret.val[1][2][1], ret.val[2][1][1])
  /\ ~Same(ret.val[1][1][2], ret.val[1][2][1])
  /\ ~Same(ret.val[3][4][5], ret.val[3][4][1])

\* C3 as stated: the axis specifications of _calc_obs_mag_vmap have one entry per
\* argument of _calc_obs_mag (ten), and the batched call returns an array of
\* shape (n_met, n_age, n_gal) whose element [m, a, g] is scalar _calc_obs_mag.
C3_ObsMagVmapBroadcasts ==
  Returned("_calc_obs_mag_vmap") =>
    /\ Len(_c) = Len(VmapArgs(call)) /\ Len(_d) = Len(VmapArgs(call))
    /\ ~ret.err
    /\ HasBatchShape(ret.val)
    /\ \A m \in 1..call.n_met, a \in 1..call.n_age, g \in 1..call.n_gal :
         LET want == _calc_obs_mag(BatchWave, LumCube(call.n_met, call.n_age)[m][a],
                                   BatchFilter.wave, BatchFilter.trans,
                                   ZVec(call.n_gal)[g], Cosmology.Om0, Cosmology.Ode0,
                                   Cosmology.w0, Cosmology.wa, Cosmology.h)
         IN  /\ SameMag(ret.val[m][a][g].mag_no_dimming, want.mag_no_dimming)
             /\ ret.val[m][a][g].dimming = want.dimming

\* C4 as stated: at x = 0.63 the two branches of calzetti00_k_lambda are equal
\* within floating-point tolerance, for any rv.
C4_ContinuousAt063 ==
  (Returned("calzetti00_k_lambda") /\ REq(call.x, Rat(63, 100)))
    => /\ Same(ret, calzetti00_axEbv2(call.x, call.rv))
       /\ RLe(RAbs(RSub(ret, calzetti00_axEbv1(call.x, call.rv))), FloatTol)

\* C4 amended: at x = 0.63 calzetti00_k_lambda returns the long-wavelength
\* branch, which for any rv lies between 0.025 and 0.0251 above the
\* short-wavelength branch: the curve jumps by about 0.025 there.
C4_JumpAt063 ==
  (Returned("calzetti00_k_lambda") /\ REq(call.x, Rat(63, 100)))
    => /\ Same(ret, calzetti00_axEbv2(call.x, call.rv))
       /\ RLt(Rat(250, 10000), RSub(ret, calzetti00_axEbv1(call.x, call.rv)))
       /\ RLt(RSub(ret, calzetti00_axEbv1(call.x, call.rv)), Rat(251, 10000))

C4_Witness ==
  /\ Returned("calzetti00_k_lambda")
  /\ REq(call.x, Rat(63, 100)) /\ REq(call.rv, RV_C00)
  /\ RLt(Rat(350, 100), ret) /\ RLt(ret, Rat(351, 100))

\* C5 as stated: at x = xc = 0.15 the value of the blend and the Calzetti00
\* curve it switches to are equal within floating-point tolerance.
C5_ContinuousAt015 ==
  (Returned("_l02_below_c00_above") /\ REq(call.xc, Rat(15, 100))
     /\ REq(call.x, Rat(15, 100)))
    => RLe(RAbs(RSub(calzetti00_k_lambda(call.x, RV_C00), ret)), FloatTol)

\* C5 amended: at x = xc = 0.15 the blend returns the Leitherer02 value, which
\* lies between 0.021 and 0.023 below the Calzetti00 value (rv = 4.05): the
\* blend jumps by about 0.022 at the switch-over wavelength.
C5_JumpAt015 ==
  (Returned("_l02_below_c00_above") /\ REq(call.xc, Rat(15, 100))
     /\ REq(call.x, Rat(15, 100)))
    => /\ RLt(Rat(21, 1000), RSub(calzetti00_k_lambda(call.x, RV_C00), ret))
       /\ RLt(RSub(calzetti00_k_lambda(call.x, RV_C00), ret), Rat(23, 1000))

C5_Witness ==
  /\ Returned("_l02_below_c00_above")
  /\ REq(call.xc, Rat(15, 100)) /\ REq(call.x, Rat(15, 100))
  /\ RLt(Rat(1031, 100), ret) /\ RLt(ret, Rat(1032, 100))
  /\ RLt(Rat(1033, 100), calzetti00_k_lambda(call.x, RV_C00))

\* C6: with slope = 0, noll09_k_lambda and sbl18_k_lambda return the same value
\* for every x, x0, gamma and ampl, and neither returns a negative value.
C6_Noll09EqualsSbl18AtSlope0 ==
  /\ (Returned("noll09_k_lambda") /\ call.slope = 0) =>
       /\ Same(ret, sbl18_k_lambda(call.x, call.x0, call.gamma, call.ampl, 0))
       /\ ~RLt(ret, Zero)
  /\ (Returned("sbl18_k_lambda") /\ call.slope = 0) =>
       /\ Same(ret, noll09_k_lambda(call.x, call.x0, call.gamma, call.ampl, 0))
       /\ ~RLt(ret, Zero)

\* slope = 0 with a UV bump that contributes
C6_Witness ==
  /\ Returned("noll09_k_lambda")
  /\ call.slope = 0
  /\ RLt(Zero, drude_bump(call.x, call.x0, call.gamma, call.ampl))
  /\ RLt(_l02_below_c00_above(call.x, Rat(15, 100)), ret)

\* C7 as stated: _flux_ratio(axEbv = 0, rv, av) with frac_unobscured = 0 is
\* exactly 1.0 for all rv and av, rv = 0 included.
C7_ZeroReddeningFullTransmission ==
  (Returned("_flux_ratio") /\ IsZero(call.axEbv) /\ IsZero(call.frac_unobscured))
    => TenPowIsOne(ret)

\* C7 amended: _flux_ratio(axEbv = 0, rv, av) with frac_unobscured = 0 is
\* exactly 1.0 for all finite av and all finite rv other than 0.
C7_ZeroReddeningNonzeroRv ==
  (Returned("_flux_ratio") /\ IsZero(call.axEbv) /\ IsZero(call.frac_unobscured)
     /\ ~IsZero(call.rv))
    => TenPowIsOne(ret)

C7_Witness ==
  /\ Returned("_flux_ratio")
  /\ IsZero(call.axEbv) /\ IsZero(call.frac_unobscured)
  /\ call.rv.s = -1 /\ call.av.s = -1
  /\ TenPowIsOne(ret)

\* C8 as stated: the AB0 flux of every valid filter curve is > 0.
C8_Ab0FluxPositive ==
  Returned("_flux_ab0_at_10pc") => RLt(Zero, ret)

\* C8 amended: the AB0 flux of every valid filter curve with positive
\* wavelengths is >= 0, and > 0 exactly when some transmission value is > 0.
C8_Ab0FluxPositiveIffTransmits ==
  Returned("_flux_ab0_at_10pc") =>
    /\ RLe(Zero, ret)
    /\ RLt(Zero, ret) <=>
         \E k \in 1..Len(call.filter.trans) : RLt(Zero, call.filter.trans[k])

\* a filter that transmits at one end only
C8_Witness ==
  /\ Returned("_flux_ab0_at_10pc")
  /\ IsZero(call.filter.trans[Len(call.filter.trans)])
  /\ RLt(Zero, call.filter.trans[1])
  /\ RLt(Zero, ret)

\* C9: at z = 0 _obs_flux_ssp equals _rest_flux_ssp and _calc_obs_mag_no_dimming
\* equals _calc_rest_mag, for every spectrum and filter.
C9_ObsEqualsRestAtZ0 ==
  /\ (Returned("_obs_flux_ssp") /\ IsZero(call.z)) =>
       Same(ret, _rest_flux_ssp(call.spec.wave, call.spec.lum, call.filter.wave,
                                call.filter.trans))
  /\ (Returned("_calc_obs_mag_no_dimming") /\ IsZero(call.z)) =>
       SameMag(ret, _calc_rest_mag(call.spec.wave, call.spec.lum, call.filter.wave,
                                   call.filter.trans))

\* z = 0, a spectrum narrower than the filter, a positive flux
C9_Witness ==
  /\ Returned("_obs_flux_ssp")
  /\ IsZero(call.z)
  /\ RLt(call.filter.wave[1], call.spec.wave[1])
  /\ RLt(Zero, ret)

\* C10: for fixed axEbv > 0, rv > 0 and frac_unobscured = 0, av1 <= av2 implies
\* _flux_ratio(axEbv, rv, av1) >= _flux_ratio(axEbv, rv, av2), negative av included.
C10_FluxRatioNonIncreasingInAv ==
  (pc = "again" /\ RLt(Zero, call.axEbv) /\ RLt(Zero, call.rv)
     /\ IsZero(call.frac_unobscured) /\ RLe(prev.call.av, call.av))
    => TenPowGe(prev.ret, ret)

\* a strict decrease from a negative av to a positive one
C10_Witness ==
  /\ pc = "again"
  /\ RLt(Zero, call.axEbv) /\ RLt(Zero, call.rv) /\ IsZero(call.frac_unobscured)
  /\ prev.call.av.s = -1 /\ call.av.s = 1
  /\ TenPowGe(prev.ret, ret) /\ ~TenPowGe(ret, prev.ret)
====
